---- MODULE Spec2Model ----
(***************************************************************************)
(* State-machine model of the KEMBridge AI risk engine                     *)
(* (src/ai-engine): the Blacklist Checker, the Rule Engine, the Risk Level *)
(* Classifier and the Simple and Hybrid analyzers.                         *)
(*                                                                         *)
(* Number representation.  Python floats are modelled in fixed point:      *)
(*   - scores, probabilities and thresholds in thousandths (0.3 is 300);   *)
(*   - amounts and average transaction sizes in tenths (100 is 1000);      *)
(*   - time in minutes.                                                    *)
(* Every sum of rule terms the code can form lands in the same band of the *)
(* default thresholds in IEEE double arithmetic as in exact arithmetic.    *)
(*                                                                         *)
(* Strings that the code case-folds or searches (addresses, chain          *)
(* identifiers, patterns) are sequences of one-character strings, so that  *)
(* str.lower() and the substring operator are computed, not assumed.       *)
(***************************************************************************)
EXTENDS Integers, Sequences, FiniteSets, TLC

VARIABLES
    settings,          \* config.settings: the three risk thresholds
    analyzer_kind,     \* which RiskAnalyzerBase variant the service was built with
    static_blacklist,  \* BlacklistChecker.static_blacklist (Ethereum)
    near_blacklist,    \* BlacklistChecker.near_blacklist
    cache,             \* BlacklistChecker.cache: key -> [result, timestamp]
    now,               \* datetime.now(), in minutes
    is_trained,        \* RiskAnalyzer.is_trained
    models,            \* RiskAnalyzer.feature_scaler / isolation_forest / risk_classifier
    saved,             \* the three persisted artifacts under model_path
    added,             \* history: (address, chain) pairs for which add returned True
    last,              \* the call in progress or just returned: op, inputs, result
    prev,              \* the call returned before last (kept by ReturnKeep)
    retrainers         \* per thread: where its retrain_models call stands

vars == <<settings, analyzer_kind, static_blacklist, near_blacklist, cache, now,
          is_trained, models, saved, added, last, prev, retrainers>>

-----------------------------------------------------------------------------
(* Bounds of the model *)

MaxAdds == 2
MaxTicks == 3

-----------------------------------------------------------------------------
(* Python values *)

\* None in a field that otherwise holds a str
None == "None"
\* None in a place that otherwise holds a character sequence
NoneSeq == <<"None">>
\* a value of amount_in that float() rejects (ValueError / TypeError)
BadAmount == -1

\* outcome of a call: a returned value or a raised exception
Ok(v) == [exc |-> FALSE, val |-> v]
Raise == [exc |-> TRUE]

Min(a, b) == IF a < b THEN a ELSE b
Max(a, b) == IF a > b THEN a ELSE b

\* the letters str.lower() changes
LowerMap ==
    [A |-> "a", B |-> "b", C |-> "c", D |-> "d", E |-> "e", F |-> "f", G |-> "g",
     H |-> "h", I |-> "i", J |-> "j", K |-> "k", L |-> "l", M |-> "m", N |-> "n",
     O |-> "o", P |-> "p", Q |-> "q", R |-> "r", S |-> "s", T |-> "t", U |-> "u",
     V |-> "v", W |-> "w", X |-> "x", Y |-> "y", Z |-> "z"]

\* str.lower() on one character
LowerChar(c) == IF c \in DOMAIN LowerMap THEN LowerMap[c] ELSE c

\* str.lower()
Lower(s) == [i \in 1..Len(s) |-> LowerChar(s[i])]

\* Python's `pattern in s` on strings
Contains(s, pattern) ==
    \E i \in 0..(Len(s) - Len(pattern)) :
        \A j \in 1..Len(pattern) : s[i + j] = pattern[j]

\* f-string rendering of a character sequence
RECURSIVE Join(_)
Join(s) == IF s = <<>> THEN "" ELSE Head(s) \o Join(Tail(s))

Rep(s, n) == [i \in 1..(n * Len(s)) |-> s[((i - 1) % Len(s)) + 1]]

-----------------------------------------------------------------------------
(* Chain identifiers and addresses used as inputs *)

ethereum == <<"e","t","h","e","r","e","u","m">>
Ethereum == <<"E","t","h","e","r","e","u","m">>
near == <<"n","e","a","r">>
NEAR == <<"N","E","A","R">>
solana == <<"s","o","l","a","n","a">>

\* the four initial Ethereum entries
EthDead == <<"0","x">> \o Rep(<<"0">>, 36) \o <<"d","e","a","d">>
EthZero == <<"0","x">> \o Rep(<<"0">>, 40)
EthDigits == <<"0","x">> \o Rep(<<"1","2","3","4","5","6","7","8","9","0">>, 4)
EthBeef == <<"0","x">> \o Rep(<<"d","e","a","d","b","e","e","f">>, 5)

\* the three initial NEAR entries
NearScammer == <<"s","c","a","m","m","e","r",".","n","e","a","r">>
NearPhishing == <<"p","h","i","s","h","i","n","g",".","n","e","a","r">>
NearFakeWallet == <<"f","a","k","e","-","w","a","l","l","e","t",".","n","e","a","r">>

\* further inputs: case variants, pattern-only matches and clean addresses
EthDeadUpper == <<"0","X">> \o Rep(<<"0">>, 36) \o <<"D","E","A","D">>
EthClean == <<"0","x">> \o Rep(<<"a","b","c","d","e","f">>, 2)
EthCleanMixed == <<"0","x">> \o Rep(<<"A","b","C","d","E","f">>, 2)
EthFfPattern == <<"0","x","F","F","F","F","F","F","a","1">>
EthBeefPattern == <<"0","x","a","1","D","e","a","d","B","e","e","f">>
NearAlice == <<"a","l","i","c","e",".","n","e","a","r">>
NearAliceUpper == <<"A","l","i","c","e",".","n","e","a","r">>
NearFraud == <<"F","r","a","u","d","s","t","e","r",".","n","e","a","r">>
NoAddress == <<>>

-----------------------------------------------------------------------------
(* models/blacklist_checker.py *)

\* BlacklistChecker.__init__: the initial Ethereum set
InitStaticBlacklist == {EthDead, EthZero, EthDigits, EthBeef}

\* BlacklistChecker.__init__: the initial NEAR set
InitNearBlacklist == {NearScammer, NearPhishing, NearFakeWallet}

\* BlacklistChecker.cache_ttl = timedelta(hours=1), in minutes
cache_ttl == 60

\* the verdict every checker method starts from
CleanVerdict ==
    [is_blacklisted |-> FALSE, reason |-> None, source |-> None,
     risk_score_increase |-> 0]

suspicious_patterns ==
    << <<"0","x","0","0","0","0","0","0">>,
       <<"0","x","f","f","f","f","f","f">>,
       <<"d","e","a","d","b","e","e","f">> >>

suspicious_keywords ==
    << <<"s","c","a","m">>, <<"p","h","i","s","h">>, <<"f","a","k","e">>,
       <<"f","r","a","u","d">>, <<"h","a","c","k">> >>

\* index of the first element of patterns found in s (0 when none): the
\* `for pattern in ...: if pattern in s: return` loops
FirstMatch(patterns, s) ==
    IF \E i \in 1..Len(patterns) : Contains(s, patterns[i])
    THEN CHOOSE i \in 1..Len(patterns) :
            /\ Contains(s, patterns[i])
            /\ \A j \in 1..(i - 1) : ~Contains(s, patterns[j])
    ELSE 0

\* mutant: the patterns are tried before the set
is_ethereum_address_blacklisted_PatternFirst(sb, address) ==
    LET address_lower == Lower(address)
        m == FirstMatch(suspicious_patterns, address_lower)
    IN  IF m # 0
        THEN [is_blacklisted |-> TRUE,
              reason |-> "Suspicious address pattern: " \o Join(suspicious_patterns[m]),
              source |-> "pattern_detection",
              risk_score_increase |-> 500]
        ELSE IF address_lower \in sb
        THEN [is_blacklisted |-> TRUE,
              reason |-> "Address in static blacklist",
              source |-> "kembridge_static",
              risk_score_increase |-> 1000]
        ELSE CleanVerdict

is_ethereum_address_blacklisted(sb, address) ==
    LET address_lower == Lower(address)
        m == FirstMatch(suspicious_patterns, address_lower)
    IN  IF address_lower \in sb
        THEN [is_blacklisted |-> TRUE,
              reason |-> "Address in static blacklist",
              source |-> "kembridge_static",
              risk_score_increase |-> 1000]
        ELSE IF m # 0
        THEN [is_blacklisted |-> TRUE,
              reason |-> "Suspicious address pattern: " \o Join(suspicious_patterns[m]),
              source |-> "pattern_detection",
              risk_score_increase |-> 500]
        ELSE CleanVerdict

is_near_address_blacklisted(nb, address) ==
    LET m == FirstMatch(suspicious_keywords, Lower(address))
    IN  IF address \in nb
        THEN [is_blacklisted |-> TRUE,
              reason |-> "NEAR address in blacklist",
              source |-> "kembridge_near_static",
              risk_score_increase |-> 1000]
        ELSE IF m # 0
        THEN [is_blacklisted |-> TRUE,
              reason |-> "Suspicious NEAR account name contains: "
                            \o Join(suspicious_keywords[m]),
              source |-> "near_pattern_detection",
              risk_score_increase |-> 700]
        ELSE CleanVerdict

\* mutant: every chain that is not Ethereum is checked as NEAR
check_address_ElseNear(sb, nb, address, chain) ==
    IF chain = NoneSeq THEN CleanVerdict
    ELSE IF Lower(chain) = ethereum THEN is_ethereum_address_blacklisted(sb, address)
    ELSE is_near_address_blacklisted(nb, address)

\* BlacklistChecker.check_address: chain.lower() raises on a chain that is not
\* a str; the method's own except clause turns that into the clean verdict
check_address(sb, nb, address, chain) ==
    IF chain = NoneSeq THEN CleanVerdict
    ELSE IF Lower(chain) = ethereum THEN is_ethereum_address_blacklisted(sb, address)
    ELSE IF Lower(chain) = near THEN is_near_address_blacklisted(nb, address)
    ELSE CleanVerdict

\* cache_key = f"{chain}:{address}"
CacheKey(address, chain) == Join(chain) \o ":" \o Join(address)

ExternalVerdict ==
    [is_blacklisted |-> FALSE, reason |-> None,
     source |-> "external_api_placeholder", risk_score_increase |-> 0]

\* BlacklistChecker.check_external_api: the verdict returned at time t
check_external_api_result(c, t, address, chain) ==
    LET cache_key == CacheKey(address, chain)
    IN  IF cache_key \in DOMAIN c /\ t - c[cache_key].timestamp < cache_ttl
        THEN c[cache_key].result
        ELSE ExternalVerdict

\* mutant: a cache hit refreshes the entry's timestamp
check_external_api_cache_Refresh(c, t, address, chain) ==
    LET cache_key == CacheKey(address, chain)
    IN  [k \in DOMAIN c \cup {cache_key} |->
            IF k = cache_key
            THEN [result |-> check_external_api_result(c, t, address, chain),
                  timestamp |-> t]
            ELSE c[k]]

\* BlacklistChecker.check_external_api: the cache it leaves at time t
check_external_api_cache(c, t, address, chain) ==
    LET cache_key == CacheKey(address, chain)
    IN  IF cache_key \in DOMAIN c /\ t - c[cache_key].timestamp < cache_ttl
        THEN c
        ELSE [k \in DOMAIN c \cup {cache_key} |->
                IF k = cache_key
                THEN [result |-> ExternalVerdict, timestamp |-> t]
                ELSE c[k]]

\* BlacklistChecker.add_to_blacklist: the value returned
add_to_blacklist_result(chain) ==
    IF chain = NoneSeq THEN FALSE
    ELSE Lower(chain) = ethereum \/ Lower(chain) = near

\* mutant: the address is stored as given, not case-folded
add_to_blacklist_static_NoLower(sb, address, chain) ==
    IF chain # NoneSeq /\ Lower(chain) = ethereum
    THEN sb \cup {address}
    ELSE sb

\* BlacklistChecker.add_to_blacklist: the Ethereum set it leaves
add_to_blacklist_static(sb, address, chain) ==
    IF chain # NoneSeq /\ Lower(chain) = ethereum
    THEN sb \cup {Lower(address)}
    ELSE sb

\* BlacklistChecker.add_to_blacklist: the NEAR set it leaves
add_to_blacklist_near(nb, address, chain) ==
    IF chain # NoneSeq /\ Lower(chain) # ethereum /\ Lower(chain) = near
    THEN nb \cup {address}
    ELSE nb

get_blacklist_stats(sb, nb, c, t) ==
    [ethereum_blacklist_size |-> Cardinality(sb),
     near_blacklist_size |-> Cardinality(nb),
     cache_size |-> Cardinality(DOMAIN c),
     last_updated |-> t]

-----------------------------------------------------------------------------
(* models/common_rules.py *)

\* float(transaction_data.get("amount_in", 0))
Float(x) == IF x = BadAmount THEN Raise ELSE Ok(x)

(* rule_based_score accumulates risk_score and factors block by block; each
   block below maps the pair acc = [risk_score, factors] to the next one *)
Bump(acc, term, factor) ==
    [risk_score |-> acc.risk_score + term, factors |-> Append(acc.factors, factor)]

\* the amount tiers
AmountBlock(acc, amount) ==
    IF amount > 1000 THEN Bump(acc, 400, "Very large transaction amount (>100)")
    ELSE IF amount > 100 THEN Bump(acc, 200, "Large transaction amount (>10)")
    ELSE IF amount > 10 THEN Bump(acc, 100, "Medium transaction amount (>1)")
    ELSE acc

\* the cross-chain term: the identifiers are compared as given
ChainBlock(acc, tx) ==
    IF tx.source_chain # tx.destination_chain
    THEN Bump(acc, 100, "Cross-chain transaction")
    ELSE acc

\* the user-history term
HistoryBlock(acc, user_history) ==
    IF user_history.is_new_user
    THEN Bump(acc, 200, "New user with no transaction history")
    ELSE IF user_history.high_risk_ratio > 300
    THEN Bump(acc, 200, "User has history of high-risk transactions")
    ELSE acc

\* mutant: an amount of exactly five times the average counts as larger
VelocityBlock_Inclusive(acc, amount, user_history) ==
    IF /\ ~user_history.is_new_user
       /\ user_history.avg_transaction_size > 0
       /\ amount >= user_history.avg_transaction_size * 5
    THEN Bump(acc, 300, "Transaction significantly larger than user average")
    ELSE acc

\* the velocity term
VelocityBlock(acc, amount, user_history) ==
    IF /\ ~user_history.is_new_user
       /\ user_history.avg_transaction_size > 0
       /\ amount > user_history.avg_transaction_size * 5
    THEN Bump(acc, 300, "Transaction significantly larger than user average")
    ELSE acc

rule_based_score(tx) ==
    IF Float(tx.amount_in).exc THEN Raise
    ELSE
    LET amount == Float(tx.amount_in).val
        s0 == [risk_score |-> 100, factors |-> <<>>]
        s1 == AmountBlock(s0, amount)
        s2 == ChainBlock(s1, tx)
        s3 == HistoryBlock(s2, tx.user_history)
        s4 == VelocityBlock(s3, amount, tx.user_history)
    IN  Ok([score |-> Min(s4.risk_score, 1000), factors |-> s4.factors])

\* mutant: a score equal to a threshold stays in the lower band
determine_risk_level_Inclusive(st, score) ==
    IF score <= st.risk_threshold_low
    THEN [level |-> "low", approved |-> TRUE, action |-> "proceed"]
    ELSE IF score <= st.risk_threshold_medium
    THEN [level |-> "medium", approved |-> TRUE, action |-> "proceed_with_monitoring"]
    ELSE IF score <= st.risk_threshold_high
    THEN [level |-> "high", approved |-> FALSE, action |-> "manual_review_required"]
    ELSE [level |-> "critical", approved |-> FALSE, action |-> "block_transaction"]

\* mutant: the medium and high rows are returned by each other's branch
determine_risk_level_Swapped(st, score) ==
    IF score < st.risk_threshold_low
    THEN [level |-> "low", approved |-> TRUE, action |-> "proceed"]
    ELSE IF score < st.risk_threshold_medium
    THEN [level |-> "high", approved |-> FALSE, action |-> "manual_review_required"]
    ELSE IF score < st.risk_threshold_high
    THEN [level |-> "medium", approved |-> TRUE, action |-> "proceed_with_monitoring"]
    ELSE [level |-> "critical", approved |-> FALSE, action |-> "block_transaction"]

determine_risk_level(st, score) ==
    IF score < st.risk_threshold_low
    THEN [level |-> "low", approved |-> TRUE, action |-> "proceed"]
    ELSE IF score < st.risk_threshold_medium
    THEN [level |-> "medium", approved |-> TRUE, action |-> "proceed_with_monitoring"]
    ELSE IF score < st.risk_threshold_high
    THEN [level |-> "high", approved |-> FALSE, action |-> "manual_review_required"]
    ELSE [level |-> "critical", approved |-> FALSE, action |-> "block_transaction"]

-----------------------------------------------------------------------------
(* models/simple_risk_analyzer.py *)

\* SimpleRiskAnalyzer.analyze_risk: the Decision returned on a flagged verdict
Simple_blacklist_decision(blacklist_result) ==
    [risk_score |-> 1000,
     risk_level |-> "high",
     is_anomaly |-> TRUE,
     anomaly_score |-> <<-1000>>,
     ml_confidence |-> 1000,
     risk_factors |-> <<blacklist_result.reason>>,
     recommended_action |-> "block_transaction",
     approved |-> FALSE,
     blacklist_check |-> blacklist_result]

\* SimpleRiskAnalyzer._emergency_fallback (anomaly_score None is <<>>)
Simple_emergency_fallback ==
    [risk_score |-> 500,
     risk_level |-> "medium",
     is_anomaly |-> FALSE,
     anomaly_score |-> <<>>,
     ml_confidence |-> 0,
     risk_factors |-> <<"Risk analysis system error - manual review required">>,
     recommended_action |-> "manual_review_required",
     approved |-> FALSE,
     blacklist_check |-> [is_blacklisted |-> FALSE, reason |-> None]]

\* SimpleRiskAnalyzer._check_blacklist: an empty or missing user_address is
\* falsy and is not checked
Simple_check_blacklist(sb, nb, tx) ==
    IF tx.user_address # NoAddress
    THEN LET check_result == check_address(sb, nb, tx.user_address, tx.source_chain)
         IN  IF check_result.is_blacklisted THEN check_result ELSE CleanVerdict
    ELSE CleanVerdict

SimpleLevel(risk_score) ==
    IF risk_score < 300
    THEN [level |-> "low", approved |-> TRUE, action |-> "proceed"]
    ELSE IF risk_score < 600
    THEN [level |-> "medium", approved |-> TRUE, action |-> "proceed_with_monitoring"]
    ELSE IF risk_score < 800
    THEN [level |-> "high", approved |-> FALSE, action |-> "manual_review_required"]
    ELSE [level |-> "critical", approved |-> FALSE, action |-> "block_transaction"]

\* mutant: the sum is returned unclamped
Simple_clamp_NoMin(risk_score) == risk_score

\* SimpleRiskAnalyzer._rule_based_analysis: risk_score = min(risk_score, 1.0)
Simple_clamp(risk_score) == Min(risk_score, 1000)

Simple_rule_based_analysis(tx, blacklist_result) ==
    IF Float(tx.amount_in).exc THEN Raise
    ELSE
    LET amount == Float(tx.amount_in).val
        user_history == tx.user_history
        s0 == [risk_score |-> 100, risk_factors |-> <<>>]
        s1 == IF amount > 1000
              THEN [risk_score |-> s0.risk_score + 400,
                    risk_factors |-> Append(s0.risk_factors,
                                        "Very large transaction amount (>100)")]
              ELSE IF amount > 100
              THEN [risk_score |-> s0.risk_score + 200,
                    risk_factors |-> Append(s0.risk_factors,
                                        "Large transaction amount (>10)")]
              ELSE IF amount > 10
              THEN [risk_score |-> s0.risk_score + 100,
                    risk_factors |-> Append(s0.risk_factors,
                                        "Medium transaction amount (>1)")]
              ELSE s0
        s2 == IF tx.source_chain # tx.destination_chain
              THEN [risk_score |-> s1.risk_score + 100,
                    risk_factors |-> Append(s1.risk_factors, "Cross-chain transaction")]
              ELSE s1
        s3 == IF user_history.is_new_user
              THEN [risk_score |-> s2.risk_score + 200,
                    risk_factors |-> Append(s2.risk_factors,
                                        "New user with no transaction history")]
              ELSE IF user_history.high_risk_ratio > 300
              THEN [risk_score |-> s2.risk_score + 200,
                    risk_factors |-> Append(s2.risk_factors,
                                        "User has history of high-risk transactions")]
              ELSE s2
        s4 == IF /\ ~user_history.is_new_user
                 /\ user_history.avg_transaction_size > 0
                 /\ amount > user_history.avg_transaction_size * 5
              THEN [risk_score |-> s3.risk_score + 300,
                    risk_factors |-> Append(s3.risk_factors,
                                        "Transaction significantly larger than user average")]
              ELSE s3
        s5 == [risk_score |-> s4.risk_score + blacklist_result.risk_score_increase,
               risk_factors |-> IF blacklist_result.reason # None
                                THEN Append(s4.risk_factors, blacklist_result.reason)
                                ELSE s4.risk_factors]
        risk_score == Simple_clamp(s5.risk_score)
        lvl == SimpleLevel(risk_score)
        risk_factors == IF s5.risk_factors = <<>>
                        THEN <<"Transaction appears normal">>
                        ELSE s5.risk_factors
    IN  Ok([risk_score |-> risk_score,
            risk_level |-> lvl.level,
            is_anomaly |-> risk_score > 700,
            anomaly_score |-> <<>>,
            ml_confidence |-> 700,
            risk_factors |-> risk_factors,
            recommended_action |-> lvl.action,
            approved |-> lvl.approved,
            blacklist_check |-> blacklist_result])

\* mutant: only a flagged-set match (increment 1.0) takes the short-circuit
Simple_analyze_risk_body_StaticOnly(sb, nb, tx) ==
    LET check_result ==
            IF tx.user_address # NoAddress
            THEN check_address(sb, nb, tx.user_address, tx.source_chain)
            ELSE CleanVerdict
    IN  IF check_result.risk_score_increase = 1000
        THEN Ok(Simple_blacklist_decision(check_result))
        ELSE Simple_rule_based_analysis(tx, check_result)

\* SimpleRiskAnalyzer.analyze_risk: the body of the try block
Simple_analyze_risk_body(sb, nb, tx) ==
    LET blacklist_result == Simple_check_blacklist(sb, nb, tx)
    IN  IF blacklist_result.is_blacklisted
        THEN Ok(Simple_blacklist_decision(blacklist_result))
        ELSE Simple_rule_based_analysis(tx, blacklist_result)

\* SimpleRiskAnalyzer.analyze_risk: try body, except -> _emergency_fallback
Simple_analyze_risk(sb, nb, tx) ==
    LET r == Simple_analyze_risk_body(sb, nb, tx)
    IN  IF r.exc THEN Ok(Simple_emergency_fallback) ELSE r

-----------------------------------------------------------------------------
(* models/risk_analyzer.py *)

(* The fitted sklearn objects are abstracted to what analyze_risk observes of
   them: the number of features they were fitted on and their response
   (decision_function value, probability of the risk-positive class), both in
   thousandths.  The response is chosen when the model is fitted. *)
NoModel == [fitted |-> FALSE]
Scaler(n) == [fitted |-> TRUE, n_features |-> n]
Forest(n, a) == [fitted |-> TRUE, n_features |-> n, decision |-> a]
Classifier(n, p) == [fitted |-> TRUE, n_features |-> n, proba |-> p]

\* X_dummy = np.random.rand(100, 15)
BootstrapFeatures == 15

\* RiskAnalyzer.extract_features: 3 amount fields, 5 chain flags, 6 history
\* aggregates, 2 time features; transcendental entries are kept symbolic, the
\* normalised amount min(amount / 1000, 1.0) is in ten-thousandths
extract_features(tx) ==
    IF Float(tx.amount_in).exc THEN Raise
    ELSE IF tx.source_chain = NoneSeq \/ tx.destination_chain = NoneSeq THEN Raise
    ELSE
    LET amount == Float(tx.amount_in).val
        source_chain == Lower(tx.source_chain)
        dest_chain == Lower(tx.destination_chain)
        user_history == tx.user_history
        B(b) == IF b THEN 1 ELSE 0
    IN  Ok(<< amount,
              [f |-> "log1p", x |-> amount],
              Min(amount, 10000),
              B(source_chain = ethereum),
              B(source_chain = near),
              B(dest_chain = ethereum),
              B(dest_chain = near),
              B(source_chain # dest_chain),
              user_history.total_transactions,
              user_history.total_volume,
              user_history.avg_transaction_size,
              user_history.days_since_first_tx,
              user_history.high_risk_ratio,
              B(user_history.is_new_user),
              [f |-> "sin", x |-> "hour_of_day"],
              [f |-> "cos", x |-> "hour_of_day"] >>)

\* RiskAnalyzer._emergency_fallback
Hybrid_emergency_fallback ==
    [risk_score |-> 500,
     risk_level |-> "medium",
     is_anomaly |-> FALSE,
     anomaly_score |-> <<>>,
     ml_confidence |-> 0,
     risk_factors |-> <<"Risk analysis system error - manual review required">>,
     recommended_action |-> "manual_review_required",
     approved |-> FALSE,
     blacklist_check |-> [is_blacklisted |-> FALSE, reason |-> None]]

\* RiskAnalyzer._check_blacklist
Hybrid_check_blacklist(sb, nb, tx) ==
    IF tx.user_address # NoAddress
    THEN LET check_result == check_address(sb, nb, tx.user_address, tx.source_chain)
         IN  IF check_result.is_blacklisted THEN check_result ELSE CleanVerdict
    ELSE CleanVerdict

\* RiskAnalyzer._rule_based_analysis: the Hybrid Analyzer's own copy of the rules
Hybrid_rule_based_analysis(tx) ==
    IF Float(tx.amount_in).exc THEN Raise
    ELSE
    LET amount == Float(tx.amount_in).val
        user_history == tx.user_history
        r0 == 100
        r1 == IF amount > 1000 THEN r0 + 400
              ELSE IF amount > 100 THEN r0 + 200
              ELSE IF amount > 10 THEN r0 + 100
              ELSE r0
        r2 == IF tx.source_chain # tx.destination_chain THEN r1 + 100 ELSE r1
        r3 == IF user_history.is_new_user THEN r2 + 200
              ELSE IF user_history.high_risk_ratio > 300 THEN r2 + 200
              ELSE r2
    IN  Ok(Min(r3, 1000))

\* mutant: the high band is approved
Hybrid_determine_risk_level_ApproveHigh(risk_score) ==
    IF risk_score < 300
    THEN [level |-> "low", approved |-> TRUE, action |-> "proceed"]
    ELSE IF risk_score < 600
    THEN [level |-> "medium", approved |-> TRUE, action |-> "proceed_with_monitoring"]
    ELSE IF risk_score < 800
    THEN [level |-> "high", approved |-> TRUE, action |-> "manual_review_required"]
    ELSE [level |-> "critical", approved |-> FALSE, action |-> "block_transaction"]

Hybrid_determine_risk_level(risk_score) ==
    IF risk_score < 300
    THEN [level |-> "low", approved |-> TRUE, action |-> "proceed"]
    ELSE IF risk_score < 600
    THEN [level |-> "medium", approved |-> TRUE, action |-> "proceed_with_monitoring"]
    ELSE IF risk_score < 800
    THEN [level |-> "high", approved |-> FALSE, action |-> "manual_review_required"]
    ELSE [level |-> "critical", approved |-> FALSE, action |-> "block_transaction"]

\* RiskAnalyzer._identify_risk_factors, for a numeric amount
Hybrid_identify_risk_factors(tx) ==
    LET amount == Float(tx.amount_in).val
        user_history == tx.user_history
    IN  (IF amount > 500 THEN <<"Large amount: " \o ToString(amount)>> ELSE <<>>)
        \o (IF user_history.is_new_user
            THEN <<"New user with no history">>
            ELSE IF user_history.high_risk_ratio > 300
            THEN <<"User has history of high-risk transactions">>
            ELSE <<>>)
        \o (IF /\ user_history.total_transactions > 0
               /\ amount > user_history.avg_transaction_size * 5
            THEN <<"Transaction much larger than user average">>
            ELSE <<>>)

\* RiskAnalyzer._fallback_analysis
Hybrid_fallback_analysis(tx, blacklist_result) ==
    LET rule == Hybrid_rule_based_analysis(tx)
    IN  IF rule.exc THEN Raise
        ELSE
        LET risk_score == Min(rule.val + blacklist_result.risk_score_increase, 1000)
            lvl == Hybrid_determine_risk_level(risk_score)
            amount == Float(tx.amount_in).val
            f1 == IF amount > 1000 THEN <<"Very large transaction amount">>
                  ELSE IF amount > 100 THEN <<"Large transaction amount">>
                  ELSE <<>>
            f2 == IF tx.source_chain # tx.destination_chain
                  THEN Append(f1, "Cross-chain transaction") ELSE f1
            f3 == IF tx.user_history.is_new_user THEN Append(f2, "New user") ELSE f2
            f4 == IF blacklist_result.reason # None
                  THEN Append(f3, blacklist_result.reason) ELSE f3
            risk_factors == IF f4 = <<>> THEN <<"Transaction appears normal">> ELSE f4
        IN  Ok([risk_score |-> risk_score,
                risk_level |-> lvl.level,
                is_anomaly |-> risk_score > 700,
                anomaly_score |-> <<>>,
                ml_confidence |-> 600,
                risk_factors |-> risk_factors,
                recommended_action |-> lvl.action,
                approved |-> lvl.approved,
                blacklist_check |-> blacklist_result])

(* RiskAnalyzer._ml_analysis: the body of the try block.  fault names the
   sklearn call that raises in this call ("none" when none does); a model that
   is None, or was fitted on another number of features, raises as well. *)
Hybrid_ml_analysis_body(m, tx, blacklist_result, fault) ==
    LET features == extract_features(tx)
    IN  IF features.exc THEN Raise
        ELSE IF \/ ~m.feature_scaler.fitted
                \/ fault = "scale"
                \/ m.feature_scaler.n_features # Len(features.val) THEN Raise
        ELSE IF \/ ~m.isolation_forest.fitted
                \/ fault = "anomaly"
                \/ m.isolation_forest.n_features # Len(features.val) THEN Raise
        ELSE IF \/ ~m.risk_classifier.fitted
                \/ fault = "classify"
                \/ m.risk_classifier.n_features # Len(features.val) THEN Raise
        ELSE
        LET anomaly_score == m.isolation_forest.decision
            is_anomaly == anomaly_score < 0
            ml_risk_score == m.risk_classifier.proba
            rule_based == Hybrid_rule_based_analysis(tx)
        IN  IF rule_based.exc THEN Raise
            ELSE
            LET raw == (4 * ml_risk_score
                        + 3 * Max(0, 1000 - ((anomaly_score + 1000) \div 2))
                        + 3 * rule_based.val) \div 10
                       + blacklist_result.risk_score_increase
                combined_score == Min(Max(raw, 0), 1000)
                lvl == Hybrid_determine_risk_level(combined_score)
                factors == Hybrid_identify_risk_factors(tx)
                risk_factors == IF blacklist_result.reason # None
                                THEN Append(factors, blacklist_result.reason)
                                ELSE factors
            IN  Ok([risk_score |-> combined_score,
                    risk_level |-> lvl.level,
                    is_anomaly |-> is_anomaly,
                    anomaly_score |-> <<anomaly_score>>,
                    ml_confidence |-> Max(ml_risk_score, 1000 - ml_risk_score),
                    risk_factors |-> risk_factors,
                    recommended_action |-> lvl.action,
                    approved |-> lvl.approved,
                    blacklist_check |-> blacklist_result])

\* RiskAnalyzer._ml_analysis: try body, except -> _fallback_analysis
Hybrid_ml_analysis(m, tx, blacklist_result, fault) ==
    LET r == Hybrid_ml_analysis_body(m, tx, blacklist_result, fault)
    IN  IF r.exc THEN Hybrid_fallback_analysis(tx, blacklist_result) ELSE r

\* mutant: the score is taken from the verdict's increment
Hybrid_blacklist_decision_FromIncrement(blacklist_result) ==
    [risk_score |-> blacklist_result.risk_score_increase,
     risk_level |-> "high",
     is_anomaly |-> TRUE,
     anomaly_score |-> <<-1000>>,
     ml_confidence |-> 1000,
     risk_factors |-> <<blacklist_result.reason>>,
     recommended_action |-> "block_transaction",
     approved |-> FALSE,
     blacklist_check |-> blacklist_result]

\* RiskAnalyzer.analyze_risk: the Decision returned on a flagged verdict
Hybrid_blacklist_decision(blacklist_result) ==
    [risk_score |-> 1000,
     risk_level |-> "high",
     is_anomaly |-> TRUE,
     anomaly_score |-> <<-1000>>,
     ml_confidence |-> 1000,
     risk_factors |-> <<blacklist_result.reason>>,
     recommended_action |-> "block_transaction",
     approved |-> FALSE,
     blacklist_check |-> blacklist_result]

\* RiskAnalyzer.analyze_risk: the body of the try block
Hybrid_analyze_risk_body(sb, nb, trained, m, tx, fault) ==
    LET blacklist_result == Hybrid_check_blacklist(sb, nb, tx)
    IN  IF blacklist_result.is_blacklisted
        THEN Ok(Hybrid_blacklist_decision(blacklist_result))
        ELSE IF trained
        THEN Hybrid_ml_analysis(m, tx, blacklist_result, fault)
        ELSE Hybrid_fallback_analysis(tx, blacklist_result)

\* mutant: no except clause around the body
Hybrid_analyze_risk_NoExcept(sb, nb, trained, m, tx, fault) ==
    Hybrid_analyze_risk_body(sb, nb, trained, m, tx, fault)

\* RiskAnalyzer.analyze_risk: try body, except -> _emergency_fallback
Hybrid_analyze_risk(sb, nb, trained, m, tx, fault) ==
    LET r == Hybrid_analyze_risk_body(sb, nb, trained, m, tx, fault)
    IN  IF r.exc THEN Ok(Hybrid_emergency_fallback) ELSE r

\* which path of RiskAnalyzer.analyze_risk produced the Decision
HybridPath(sb, nb, trained, m, tx, fault) ==
    LET blacklist_result == Hybrid_check_blacklist(sb, nb, tx)
    IN  IF blacklist_result.is_blacklisted THEN "blacklist"
        ELSE IF trained /\ ~Hybrid_ml_analysis_body(m, tx, blacklist_result, fault).exc
        THEN "ml"
        ELSE IF Hybrid_fallback_analysis(tx, blacklist_result).exc THEN "emergency"
        ELSE "fallback"

\* which path of SimpleRiskAnalyzer.analyze_risk produced the Decision
SimplePath(sb, nb, tx) ==
    LET blacklist_result == Simple_check_blacklist(sb, nb, tx)
    IN  IF blacklist_result.is_blacklisted THEN "blacklist"
        ELSE IF Simple_rule_based_analysis(tx, blacklist_result).exc THEN "emergency"
        ELSE "rules"

-----------------------------------------------------------------------------
(* Construction of the Hybrid Analyzer: RiskAnalyzer.__init__ *)

Unloaded == [feature_scaler |-> NoModel, isolation_forest |-> NoModel,
             risk_classifier |-> NoModel]

\* the three objects one fit on n features leaves, with responses a and p
Fitted(n, a, p) == [feature_scaler |-> Scaler(n), isolation_forest |-> Forest(n, a),
                    risk_classifier |-> Classifier(n, p)]

(* RiskAnalyzer._load_models.  disk holds the three artifacts (NoModel for a
   missing file); load_fail is the index of the joblib.load that raises, 0
   when none does.  The loads run in the order detector, classifier, scaler. *)
Hybrid_load_models(disk, load_fail) ==
    IF /\ disk.isolation_forest.fitted
       /\ disk.risk_classifier.fitted
       /\ disk.feature_scaler.fitted
    THEN IF load_fail = 0
         THEN [is_trained |-> TRUE, models |-> disk]
         ELSE [is_trained |-> FALSE,
               models |-> [isolation_forest |->
                               IF load_fail > 1 THEN disk.isolation_forest ELSE NoModel,
                           risk_classifier |->
                               IF load_fail > 2 THEN disk.risk_classifier ELSE NoModel,
                           feature_scaler |-> NoModel]]
    ELSE [is_trained |-> FALSE, models |-> Unloaded]

\* RiskAnalyzer._save_models: a failing joblib.dump is logged and swallowed
Hybrid_save_models(disk, m, save_ok) == IF save_ok THEN m ELSE disk

(* RiskAnalyzer._initialize_basic_models.  boot.ok is FALSE when a fit raises
   (the classifier's, on labels of one class); the scaler and the detector
   are fitted by then and is_trained stays False. *)
Hybrid_initialize_basic_models(disk, boot) ==
    IF boot.ok
    THEN [is_trained |-> TRUE,
          models |-> Fitted(BootstrapFeatures, boot.decision, boot.proba),
          saved |-> Hybrid_save_models(
                        disk, Fitted(BootstrapFeatures, boot.decision, boot.proba),
                        boot.save_ok)]
    ELSE [is_trained |-> FALSE,
          models |-> [feature_scaler |-> Scaler(BootstrapFeatures),
                      isolation_forest |-> Forest(BootstrapFeatures, boot.decision),
                      risk_classifier |-> NoModel],
          saved |-> disk]

\* RiskAnalyzer.__init__
Hybrid_init(disk, load_fail, boot) ==
    LET loaded == Hybrid_load_models(disk, load_fail)
    IN  IF loaded.is_trained
        THEN [is_trained |-> TRUE, models |-> loaded.models, saved |-> disk]
        ELSE Hybrid_initialize_basic_models(disk, boot)

-----------------------------------------------------------------------------
(* Retraining: RiskAnalyzer.retrain_models *)

\* if len(training_data) < 10
MinSamples == 10

\* y.append(1 if sample.get('risk_score', 0) > 0.5 else 0)
Label(sample) == IF sample.risk_score > 500 THEN 1 ELSE 0

\* mutant: the size of the training set is tested after the refit
retrain_models_FitFirst(m, disk, training_data, fit, t) ==
    LET width == Len(extract_features(training_data[1]).val)
        refit == Fitted(width, fit.decision, fit.proba)
    IN  IF Len(training_data) < MinSamples
        THEN [models |-> refit, saved |-> disk,
              result |-> [status |-> "error", message |-> "Insufficient training data"]]
        ELSE [models |-> refit, saved |-> Hybrid_save_models(disk, refit, fit.save_ok),
              result |-> [status |-> "success", samples_used |-> Len(training_data),
                          timestamp |-> t]]

(* RiskAnalyzer.retrain_models on the models m with the artifacts disk in
   model_path, at time t; fit gives the responses of the refitted detector and
   classifier and whether joblib.dump succeeds.  The three fits run in place,
   in the order scaler, detector, classifier: an exception leaves the models
   fitted before it in memory.  LogisticRegression.fit raises on labels of one
   class; extract_features raises on a sample whose amount is not a number.
   Returns the models and the artifacts the call leaves and its status. *)
retrain_models(m, disk, training_data, fit, t) ==
    LET X == [i \in DOMAIN training_data |-> extract_features(training_data[i])]
        y == [i \in DOMAIN training_data |-> Label(training_data[i])]
        width == Len(X[1].val)
        scaled == [m EXCEPT !.feature_scaler = Scaler(width)]
        forested == [scaled EXCEPT !.isolation_forest = Forest(width, fit.decision)]
        refit == [forested EXCEPT !.risk_classifier = Classifier(width, fit.proba)]
    IN  IF Len(training_data) < MinSamples
        THEN [models |-> m, saved |-> disk,
              result |-> [status |-> "error", message |-> "Insufficient training data"]]
        ELSE IF \E i \in DOMAIN training_data : X[i].exc
        THEN [models |-> m, saved |-> disk,
              result |-> [status |-> "error",
                          message |-> "could not convert string to float"]]
        ELSE IF Cardinality({y[i] : i \in DOMAIN training_data}) < 2
        THEN [models |-> forested, saved |-> disk,
              result |-> [status |-> "error",
                          message |-> "This solver needs samples of at least 2 classes"]]
        ELSE [models |-> refit, saved |-> Hybrid_save_models(disk, refit, fit.save_ok),
              result |-> [status |-> "success", samples_used |-> Len(training_data),
                          timestamp |-> t]]

(* retrain_models has no lock, so calls from several threads interleave at
   its statements.  A thread's call stands before its size test ("check"),
   before one of the three fits ("scale", "forest", "classify"), before
   _save_models ("save"), or has returned ("done"). *)
Threads == {"t1", "t2"}

NotRetraining == [pc |-> "idle"]
NoRetrainers == [th \in Threads |-> NotRetraining]

-----------------------------------------------------------------------------
(* Inputs *)

\* responses a fitted detector and classifier can have, in thousandths
Decisions == {-800, 400}
Probas == {0, 1000}

\* len(extract_features(sample)[0]), the width retrain_models fits on
ExtractedFeatures ==
    Len(extract_features([amount_in |-> 10, source_chain |-> ethereum,
                          destination_chain |-> near, user_address |-> NoAddress,
                          user_history |-> [total_transactions |-> 0, total_volume |-> 0,
                                            avg_transaction_size |-> 0,
                                            days_since_first_tx |-> 0,
                                            high_risk_ratio |-> 0,
                                            is_new_user |-> TRUE]]).val)

\* what model_path can hold when the process starts
Disks ==
    {Unloaded}
    \cup {Fitted(n, a, p) : n \in {BootstrapFeatures, ExtractedFeatures},
                            a \in Decisions, p \in Probas}

BootOk(a, p, sv) == [ok |-> TRUE, decision |-> a, proba |-> p, save_ok |-> sv]
BootFails == [ok |-> FALSE, decision |-> 400, proba |-> 0, save_ok |-> TRUE]

(* The constructions the model starts from, as <<disk, load_fail, boot>>: a
   cold start whose bootstrap succeeds, one whose save fails, one whose fit
   fails, a warm start from any persisted set, and a corrupt second artifact *)
Constructions ==
    {<<Unloaded, 0, BootOk(a, p, TRUE)>> : a \in Decisions, p \in Probas}
    \cup {<<Unloaded, 0, BootOk(400, 0, FALSE)>>, <<Unloaded, 0, BootFails>>}
    \cup {<<d, 0, BootFails>> : d \in Disks \ {Unloaded}}
    \cup {<<Fitted(ExtractedFeatures, 400, 1000), 2, BootOk(-800, 0, TRUE)>>}

DefaultSettings ==
    [risk_threshold_low |-> 300, risk_threshold_medium |-> 600,
     risk_threshold_high |-> 800]

\* user_history summaries: a new user and four existing ones
NewUser ==
    [total_transactions |-> 0, total_volume |-> 0, avg_transaction_size |-> 0,
     days_since_first_tx |-> 0, high_risk_ratio |-> 0, is_new_user |-> TRUE]
Existing(n, avg, ratio) ==
    [total_transactions |-> n, total_volume |-> n * avg, avg_transaction_size |-> avg,
     days_since_first_tx |-> 7, high_risk_ratio |-> ratio, is_new_user |-> FALSE]
Histories ==
    {NewUser, Existing(2, 20, 100), Existing(4, 20, 500),
     Existing(3, 0, 300), Existing(1, 300, 0)}

\* amount_in, in tenths: 1, 10, 60 and 150, and a non-numeric value
Amounts == {10, 100, 600, 1500, BadAmount}

Transactions(amounts, sources, dests, addresses) ==
    [amount_in : amounts, source_chain : sources, destination_chain : dests,
     user_address : addresses, user_history : Histories]

AnalyzerTransactions ==
    Transactions(Amounts, {ethereum, NEAR, solana, NoneSeq}, {ethereum},
                 {NoAddress, EthDeadUpper, EthClean, EthBeefPattern, NearFraud})

Faults == {"none", "scale", "anomaly", "classify"}

Idle == [op |-> "idle"]

-----------------------------------------------------------------------------
(* The history provider: RiskAnalysisService.get_user_history *)

\* conn.fetchrow returns None when the query yields no row
NoRow == [row |-> FALSE]

\* a row of the aggregate query; first_transaction and t are in minutes
Row(n, volume, avg, first, high) ==
    [row |-> TRUE, total_transactions |-> n, total_volume |-> volume,
     avg_transaction_size |-> avg, first_transaction |-> first,
     high_risk_count |-> high]

MinutesPerDay == 1440

\* mutant: `if result:` without the test of the count
get_user_history_NoCountTest(fetched, t) ==
    IF fetched.exc THEN Ok(NewUser)
    ELSE IF fetched.val.row
    THEN Ok([total_transactions |-> fetched.val.total_transactions,
             total_volume |-> fetched.val.total_volume,
             avg_transaction_size |-> fetched.val.avg_transaction_size,
             days_since_first_tx |->
                 (t - fetched.val.first_transaction) \div MinutesPerDay,
             high_risk_ratio |->
                 (fetched.val.high_risk_count * 1000)
                     \div Max(fetched.val.total_transactions, 1),
             is_new_user |-> FALSE])
    ELSE Ok(NewUser)

(* the try block of get_user_history at time t; fetched is what
   conn.fetchrow did: Raise, or Ok of NoRow or of a row.  The ratio is in
   thousandths. *)
get_user_history_body(fetched, t) ==
    IF fetched.exc THEN Raise
    ELSE
    LET result == fetched.val
    IN  IF result.row /\ result.total_transactions > 0
        THEN LET days_since_first ==
                     (t - result.first_transaction) \div MinutesPerDay
             IN  Ok([total_transactions |-> result.total_transactions,
                     total_volume |-> Float(result.total_volume).val,
                     avg_transaction_size |-> Float(result.avg_transaction_size).val,
                     days_since_first_tx |-> days_since_first,
                     high_risk_ratio |->
                         (result.high_risk_count * 1000)
                             \div Max(result.total_transactions, 1),
                     is_new_user |-> FALSE])
        ELSE Ok(NewUser)

\* get_user_history: try body, except -> UserHistoryData(is_new_user=True)
get_user_history(fetched, t) ==
    LET r == get_user_history_body(fetched, t)
    IN  IF r.exc THEN Ok(NewUser) ELSE r

\* what the provider can answer: the aggregates of 0, 1, 2 or 4 transactions
\* of the last 30 days, of which any number were scored above 0.5
Rows ==
    {Row(0, 0, 0, 0, 0)}
    \cup UNION {{Row(n, n * avg, avg, first, high) :
                    avg \in {25, 3000}, first \in {-30000, -600, 0}, high \in 0..n} :
                n \in {1, 2, 4}}

Fetches == {Raise, Ok(NoRow)} \cup {Ok(r) : r \in Rows}

-----------------------------------------------------------------------------
(* Initial states *)

CheckerInit ==
    /\ static_blacklist = InitStaticBlacklist
    /\ near_blacklist = InitNearBlacklist
    /\ cache = <<>>
    /\ now = 0
    /\ added = {}

NoAnalyzerModels ==
    /\ is_trained = FALSE
    /\ models = Unloaded
    /\ saved = Unloaded

\* a service built with a SimpleRiskAnalyzer or with a RiskAnalyzer
Init ==
    /\ settings = DefaultSettings
    /\ CheckerInit
    /\ last = Idle
    /\ prev = Idle
    /\ retrainers = NoRetrainers
    /\ \/ /\ analyzer_kind = "simple"
          /\ NoAnalyzerModels
       \/ /\ analyzer_kind = "hybrid"
          /\ \E k \in Constructions :
                LET c == Hybrid_init(k[1], k[2], k[3])
                IN  /\ is_trained = c.is_trained
                    /\ models = c.models
                    /\ saved = c.saved

-----------------------------------------------------------------------------
(* Actions *)

\* the caller takes the result; the service is ready for the next call
Return ==
    /\ last.op # "idle"
    /\ last' = Idle
    /\ UNCHANGED <<settings, analyzer_kind, static_blacklist, near_blacklist, cache,
                   now, is_trained, models, saved, added, prev, retrainers>>

\* as Return, and the result is kept for comparison with the next call's
ReturnKeep ==
    /\ last.op # "idle"
    /\ prev' = last
    /\ last' = Idle
    /\ UNCHANGED <<settings, analyzer_kind, static_blacklist, near_blacklist, cache,
                   now, is_trained, models, saved, added, retrainers>>

\* mutant: an address flagged by a pattern is remembered in the Ethereum set
AnalyzeSimple_Learns(tx) ==
    /\ last.op = "idle"
    /\ analyzer_kind = "simple"
    /\ last' = [op |-> "analyze", kind |-> "simple", tx |-> tx,
                path |-> SimplePath(static_blacklist, near_blacklist, tx),
                result |-> Simple_analyze_risk(static_blacklist, near_blacklist, tx)]
    /\ static_blacklist' =
            IF Simple_check_blacklist(static_blacklist, near_blacklist, tx).source
               = "pattern_detection"
            THEN static_blacklist \cup {Lower(tx.user_address)}
            ELSE static_blacklist
    /\ UNCHANGED <<settings, analyzer_kind, near_blacklist, cache,
                   now, is_trained, models, saved, added, prev, retrainers>>

\* SimpleRiskAnalyzer.analyze_risk(tx)
AnalyzeSimple(tx) ==
    /\ last.op = "idle"
    /\ analyzer_kind = "simple"
    /\ last' = [op |-> "analyze", kind |-> "simple", tx |-> tx,
                path |-> SimplePath(static_blacklist, near_blacklist, tx),
                result |-> Simple_analyze_risk(static_blacklist, near_blacklist, tx)]
    /\ UNCHANGED <<settings, analyzer_kind, static_blacklist, near_blacklist, cache,
                   now, is_trained, models, saved, added, prev, retrainers>>

\* mutant: a call whose ML step raised marks the analyzer as not trained
AnalyzeHybrid_Degrades(tx, fault) ==
    /\ last.op = "idle"
    /\ analyzer_kind = "hybrid"
    /\ last' = [op |-> "analyze", kind |-> "hybrid", tx |-> tx,
                path |-> HybridPath(static_blacklist, near_blacklist, is_trained,
                                    models, tx, fault),
                result |-> Hybrid_analyze_risk(static_blacklist, near_blacklist,
                                               is_trained, models, tx, fault)]
    /\ is_trained' = (is_trained /\ last'.path \in {"blacklist", "ml"})
    /\ UNCHANGED <<settings, analyzer_kind, static_blacklist, near_blacklist, cache,
                   now, models, saved, added, prev, retrainers>>

\* RiskAnalyzer.analyze_risk(tx), with the sklearn fault of this call
AnalyzeHybrid(tx, fault) ==
    /\ last.op = "idle"
    /\ analyzer_kind = "hybrid"
    /\ last' = [op |-> "analyze", kind |-> "hybrid", tx |-> tx,
                path |-> HybridPath(static_blacklist, near_blacklist, is_trained,
                                    models, tx, fault),
                result |-> Hybrid_analyze_risk(static_blacklist, near_blacklist,
                                               is_trained, models, tx, fault)]
    /\ UNCHANGED <<settings, analyzer_kind, static_blacklist, near_blacklist, cache,
                   now, is_trained, models, saved, added, prev, retrainers>>

\* BlacklistChecker.add_to_blacklist(address, chain, reason); reason is only logged
AddToBlacklist(address, chain) ==
    /\ last.op = "idle"
    /\ Cardinality(added) < MaxAdds
    /\ static_blacklist' = add_to_blacklist_static(static_blacklist, address, chain)
    /\ near_blacklist' = add_to_blacklist_near(near_blacklist, address, chain)
    /\ added' = IF add_to_blacklist_result(chain)
                THEN added \cup {<<address, chain>>} ELSE added
    /\ last' = [op |-> "add", address |-> address, chain |-> chain,
                result |-> add_to_blacklist_result(chain)]
    /\ UNCHANGED <<settings, analyzer_kind, cache, now, is_trained, models, saved, prev,
                   retrainers>>

\* BlacklistChecker.check_address(address, chain)
CheckAddress(address, chain) ==
    /\ last.op = "idle"
    /\ last' = [op |-> "check", address |-> address, chain |-> chain,
                result |-> check_address(static_blacklist, near_blacklist,
                                         address, chain)]
    /\ UNCHANGED <<settings, analyzer_kind, static_blacklist, near_blacklist, cache,
                   now, is_trained, models, saved, added, prev, retrainers>>

\* BlacklistChecker.check_external_api(address, chain)
CheckExternal(address, chain) ==
    /\ last.op = "idle"
    /\ cache' = check_external_api_cache(cache, now, address, chain)
    /\ last' = [op |-> "check_external", address |-> address, chain |-> chain,
                result |-> check_external_api_result(cache, now, address, chain)]
    /\ UNCHANGED <<settings, analyzer_kind, static_blacklist, near_blacklist,
                   now, is_trained, models, saved, added, prev, retrainers>>

\* BlacklistChecker.get_blacklist_stats()
Stats ==
    /\ last.op = "idle"
    /\ last' = [op |-> "stats",
                result |-> get_blacklist_stats(static_blacklist, near_blacklist,
                                               cache, now)]
    /\ UNCHANGED <<settings, analyzer_kind, static_blacklist, near_blacklist, cache,
                   now, is_trained, models, saved, added, prev, retrainers>>

\* half an hour passes
Tick ==
    /\ last.op = "idle"
    /\ now < MaxTicks * 30
    /\ now' = now + 30
    /\ UNCHANGED <<settings, analyzer_kind, static_blacklist, near_blacklist, cache,
                   is_trained, models, saved, added, last, prev, retrainers,
                   retrainers>>

\* administrative additions to the analyzer's own checker
AdminAdds == {<<EthCleanMixed, Ethereum>>, <<NearFraud, near>>, <<EthClean, solana>>}

Next ==
    \/ \E tx \in AnalyzerTransactions : AnalyzeSimple(tx)
    \/ \E tx \in AnalyzerTransactions, fault \in Faults : AnalyzeHybrid(tx, fault)
    \/ \E ac \in AdminAdds : AddToBlacklist(ac[1], ac[2])
    \/ Return

Spec == Init /\ [][Next]_vars

-----------------------------------------------------------------------------
(* The Risk Level Classifier on its own: settings are read once, at start *)

ThresholdValues == {200, 300, 600, 800}

\* every triple the environment can configure, ascending or not
ThresholdTriples ==
    [risk_threshold_low : ThresholdValues, risk_threshold_medium : ThresholdValues,
     risk_threshold_high : ThresholdValues]

Scores == {0, 100, 199, 200, 299, 300, 301, 500, 599, 600, 700, 799, 800, 900, 1000}

InitClassify ==
    /\ settings \in ThresholdTriples
    /\ analyzer_kind = "simple"
    /\ CheckerInit
    /\ NoAnalyzerModels
    /\ last = Idle
    /\ prev = Idle
    /\ retrainers = NoRetrainers

\* determine_risk_level(score)
Classify(score) ==
    /\ last.op = "idle"
    /\ last' = [op |-> "classify", score |-> score,
                result |-> determine_risk_level(settings, score)]
    /\ UNCHANGED <<settings, analyzer_kind, static_blacklist, near_blacklist, cache,
                   now, is_trained, models, saved, added, prev, retrainers>>

NextClassify ==
    \/ \E score \in Scores : Classify(score)
    \/ ReturnKeep

SpecClassify == InitClassify /\ [][NextClassify]_vars

-----------------------------------------------------------------------------
(* The Rule Engine on its own *)

\* amounts around every tier boundary: 0.5, 1, 1.1, 10, 10.1, 100, 100.1
RuleAmounts == {5, 10, 11, 100, 101, 1000, 1001, BadAmount}

RuleTransactions ==
    Transactions(RuleAmounts, {ethereum, Ethereum}, {ethereum, near},
                 {NoAddress, EthDead})

InitRules ==
    /\ settings = DefaultSettings
    /\ analyzer_kind = "simple"
    /\ CheckerInit
    /\ NoAnalyzerModels
    /\ last = Idle
    /\ prev = Idle
    /\ retrainers = NoRetrainers

\* rule_based_score(transaction_data)
RuleScore(tx) ==
    /\ last.op = "idle"
    /\ last' = [op |-> "rule_score", tx |-> tx, result |-> rule_based_score(tx)]
    /\ UNCHANGED <<settings, analyzer_kind, static_blacklist, near_blacklist, cache,
                   now, is_trained, models, saved, added, prev, retrainers>>

NextRules ==
    \/ \E tx \in RuleTransactions : RuleScore(tx)
    \/ ReturnKeep

SpecRules == InitRules /\ [][NextRules]_vars

-----------------------------------------------------------------------------
(* The Blacklist Checker on its own: the service's blacklist_checker *)

AddInputs ==
    {EthCleanMixed, EthBeefPattern, NearAlice, NearFraud}
    \X {Ethereum, NEAR, solana, NoneSeq}

CheckInputs ==
    {EthDead, EthDeadUpper, EthClean, EthCleanMixed, EthFfPattern, EthBeefPattern,
     NearScammer, NearAlice, NearAliceUpper, NearFraud, NoAddress}
    \X {ethereum, Ethereum, near, NEAR, solana, NoneSeq}

ExternalInputs == {<<EthClean, ethereum>>, <<NearAlice, near>>}

InitBlacklist ==
    /\ settings = DefaultSettings
    /\ analyzer_kind = "simple"
    /\ CheckerInit
    /\ NoAnalyzerModels
    /\ last = Idle
    /\ prev = Idle
    /\ retrainers = NoRetrainers

NextBlacklist ==
    \/ \E ac \in AddInputs : AddToBlacklist(ac[1], ac[2])
    \/ \E ac \in CheckInputs : CheckAddress(ac[1], ac[2])
    \/ \E ac \in ExternalInputs : CheckExternal(ac[1], ac[2])
    \/ Stats
    \/ Tick
    \/ Return

SpecBlacklist == InitBlacklist /\ [][NextBlacklist]_vars

-----------------------------------------------------------------------------
(* Retraining a Hybrid Analyzer between analyses *)

\* a labelled sample: a transaction with the risk_score it was given
Sample(amount, risk_score) ==
    [amount_in |-> amount, source_chain |-> ethereum, destination_chain |-> near,
     user_address |-> NoAddress, user_history |-> NewUser, risk_score |-> risk_score]

\* n samples, the first high of them labelled risky; bad: the last amount is
\* not a number
TrainingSet(n, high, bad) ==
    [i \in 1..n |-> Sample(IF bad /\ i = n THEN BadAmount ELSE 100,
                           IF i <= high THEN 900 ELSE 100)]

TrainingSets ==
    {TrainingSet(5, 2, FALSE), TrainingSet(9, 9, FALSE), TrainingSet(9, 4, TRUE),
     TrainingSet(10, 3, FALSE), TrainingSet(10, 0, FALSE), TrainingSet(10, 10, FALSE),
     TrainingSet(12, 6, TRUE)}

\* what a refit yields and whether the save succeeds
Fits ==
    {[decision |-> 400, proba |-> 1000, save_ok |-> TRUE],
     [decision |-> -800, proba |-> 0, save_ok |-> TRUE],
     [decision |-> -800, proba |-> 1000, save_ok |-> FALSE]}

RetrainTransactions ==
    {tx \in Transactions({10, 1500, BadAmount}, {ethereum}, {ethereum},
                         {NoAddress, EthBeefPattern}) :
        tx.user_history \in {NewUser, Existing(2, 20, 100)}}

RetrainConstructions ==
    {<<Unloaded, 0, BootOk(400, 0, TRUE)>>, <<Unloaded, 0, BootOk(400, 0, FALSE)>>,
     <<Unloaded, 0, BootFails>>, <<Fitted(ExtractedFeatures, 400, 1000), 0, BootFails>>}

InitRetrain ==
    /\ settings = DefaultSettings
    /\ analyzer_kind = "hybrid"
    /\ CheckerInit
    /\ last = Idle
    /\ prev = Idle
    /\ retrainers = NoRetrainers
    /\ \E k \in RetrainConstructions :
            LET c == Hybrid_init(k[1], k[2], k[3])
            IN  /\ is_trained = c.is_trained
                /\ models = c.models
                /\ saved = c.saved

\* RiskAnalyzer.retrain_models(training_data)
Retrain(training_data, fit) ==
    /\ last.op = "idle"
    /\ analyzer_kind = "hybrid"
    /\ LET r == retrain_models(models, saved, training_data, fit, now)
       IN  /\ models' = r.models
           /\ saved' = r.saved
           /\ last' = [op |-> "retrain", training_data |-> training_data,
                       result |-> r.result]
    /\ UNCHANGED <<settings, analyzer_kind, static_blacklist, near_blacklist, cache,
                   now, is_trained, added, prev, retrainers>>

NextRetrain ==
    \/ \E td \in TrainingSets, fit \in Fits : Retrain(td, fit)
    \/ \E tx \in RetrainTransactions, fault \in Faults : AnalyzeHybrid(tx, fault)
    \/ ReturnKeep

SpecRetrain == InitRetrain /\ [][NextRetrain]_vars

-----------------------------------------------------------------------------
(* The Simple Analyzer called repeatedly, with blacklist traffic between calls *)

SimpleTransactions ==
    {tx \in Transactions({10, 1500, BadAmount}, {ethereum, NEAR, NoneSeq}, {ethereum},
                         {NoAddress, EthClean, EthBeefPattern, NearFraud}) :
        tx.user_history \in {NewUser, Existing(1, 300, 0)}}

InitSimple ==
    /\ settings = DefaultSettings
    /\ analyzer_kind = "simple"
    /\ CheckerInit
    /\ NoAnalyzerModels
    /\ last = Idle
    /\ prev = Idle
    /\ retrainers = NoRetrainers

NextSimple ==
    \/ \E tx \in SimpleTransactions : AnalyzeSimple(tx)
    \/ \E ac \in AdminAdds : AddToBlacklist(ac[1], ac[2])
    \/ \E ac \in ExternalInputs : CheckExternal(ac[1], ac[2])
    \/ ReturnKeep

SpecSimple == InitSimple /\ [][NextSimple]_vars

-----------------------------------------------------------------------------
(* The history provider on its own *)

InitHistory ==
    /\ settings = DefaultSettings
    /\ analyzer_kind = "simple"
    /\ CheckerInit
    /\ NoAnalyzerModels
    /\ last = Idle
    /\ prev = Idle
    /\ retrainers = NoRetrainers

\* RiskAnalysisService.get_user_history(conn, user_id)
GetUserHistory(fetched) ==
    /\ last.op = "idle"
    /\ last' = [op |-> "history", fetched |-> fetched,
                result |-> get_user_history(fetched, now)]
    /\ UNCHANGED <<settings, analyzer_kind, static_blacklist, near_blacklist, cache,
                   now, is_trained, models, saved, added, prev, retrainers>>

NextHistory ==
    \/ \E fetched \in Fetches : GetUserHistory(fetched)
    \/ Tick
    \/ Return

SpecHistory == InitHistory /\ [][NextHistory]_vars

-----------------------------------------------------------------------------
(* Construction of a Hybrid Analyzer over a model_path, then analyses *)

\* model_path before construction: empty, a full set, or a set without scaler
ConstructDisks ==
    Disks \cup {[Fitted(ExtractedFeatures, 400, 1000) EXCEPT !.feature_scaler = NoModel]}

\* the joblib.load that raises (0: none) and the outcome of the bootstrap
ConstructFaults ==
    {0, 2} \X {BootOk(400, 0, TRUE), BootOk(-800, 1000, TRUE),
               BootOk(400, 1000, FALSE), BootFails}

ConstructTransactions ==
    {tx \in Transactions({10, 1500, BadAmount}, {ethereum}, {ethereum},
                         {NoAddress, EthBeefPattern}) :
        tx.user_history \in {NewUser, Existing(2, 20, 100)}}

InitConstruct ==
    /\ settings = DefaultSettings
    /\ analyzer_kind = "none"
    /\ CheckerInit
    /\ is_trained = FALSE
    /\ models = Unloaded
    /\ saved \in ConstructDisks
    /\ last = Idle
    /\ prev = Idle
    /\ retrainers = NoRetrainers

\* RiskAnalyzer(model_path)
Construct(load_fail, boot) ==
    /\ last.op = "idle"
    /\ analyzer_kind = "none"
    /\ analyzer_kind' = "hybrid"
    /\ LET c == Hybrid_init(saved, load_fail, boot)
       IN  /\ is_trained' = c.is_trained
           /\ models' = c.models
           /\ saved' = c.saved
    /\ last' = [op |-> "construct", disk |-> saved, load_fail |-> load_fail]
    /\ UNCHANGED <<settings, static_blacklist, near_blacklist, cache, now, added, prev,
                   retrainers>>

NextConstruct ==
    \/ \E k \in ConstructFaults : Construct(k[1], k[2])
    \/ \E tx \in ConstructTransactions, fault \in Faults : AnalyzeHybrid(tx, fault)
    \/ Return

SpecConstruct == InitConstruct /\ [][NextConstruct]_vars

-----------------------------------------------------------------------------
(* retrain_models called from several threads on one Hybrid Analyzer *)

ThreadTrainingSets ==
    {TrainingSet(5, 2, FALSE), TrainingSet(10, 3, FALSE), TrainingSet(10, 0, FALSE),
     TrainingSet(10, 4, TRUE)}

ThreadFits ==
    {[decision |-> 400, proba |-> 1000, save_ok |-> TRUE],
     [decision |-> -800, proba |-> 0, save_ok |-> FALSE]}

InitThreads ==
    /\ settings = DefaultSettings
    /\ analyzer_kind = "hybrid"
    /\ CheckerInit
    /\ last = Idle
    /\ prev = Idle
    /\ retrainers = NoRetrainers
    /\ \E k \in RetrainConstructions :
            LET c == Hybrid_init(k[1], k[2], k[3])
            IN  /\ is_trained = c.is_trained
                /\ models = c.models
                /\ saved = c.saved

\* the thread's call returns with result
RetrainReturn(th, result) ==
    retrainers' = [retrainers EXCEPT ![th] = [pc |-> "done", result |-> result]]

\* the thread's call moves on to pc
RetrainGoto(th, pc) ==
    retrainers' = [retrainers EXCEPT ![th].pc = pc]

\* thread th enters retrain_models(training_data)
RetrainCall(th, training_data, fit) ==
    /\ retrainers[th].pc = "idle"
    /\ retrainers' = [retrainers EXCEPT
                         ![th] = [pc |-> "check", training_data |-> training_data,
                                  fit |-> fit]]
    /\ UNCHANGED <<settings, analyzer_kind, static_blacklist, near_blacklist, cache,
                   now, is_trained, models, saved, added, last, prev>>

\* the size test and the loop that builds X and y
RetrainCheck(th) ==
    /\ retrainers[th].pc = "check"
    /\ LET training_data == retrainers[th].training_data
       IN  IF Len(training_data) < MinSamples
           THEN RetrainReturn(th, [status |-> "error",
                                   message |-> "Insufficient training data"])
           ELSE IF \E i \in DOMAIN training_data :
                       extract_features(training_data[i]).exc
           THEN RetrainReturn(th, [status |-> "error",
                                   message |-> "could not convert string to float"])
           ELSE RetrainGoto(th, "scale")
    /\ UNCHANGED <<settings, analyzer_kind, static_blacklist, near_blacklist, cache,
                   now, is_trained, models, saved, added, last, prev>>

\* X_scaled = self.feature_scaler.fit_transform(X)
RetrainScale(th) ==
    /\ retrainers[th].pc = "scale"
    /\ models' = [models EXCEPT !.feature_scaler =
                      Scaler(Len(extract_features(retrainers[th].training_data[1]).val))]
    /\ RetrainGoto(th, "forest")
    /\ UNCHANGED <<settings, analyzer_kind, static_blacklist, near_blacklist, cache,
                   now, is_trained, saved, added, last, prev>>

\* self.isolation_forest.fit(X_scaled)
RetrainForest(th) ==
    /\ retrainers[th].pc = "forest"
    /\ models' = [models EXCEPT !.isolation_forest =
                      Forest(Len(extract_features(retrainers[th].training_data[1]).val),
                             retrainers[th].fit.decision)]
    /\ RetrainGoto(th, "classify")
    /\ UNCHANGED <<settings, analyzer_kind, static_blacklist, near_blacklist, cache,
                   now, is_trained, saved, added, last, prev>>

\* self.risk_classifier.fit(X_scaled, y)
RetrainClassify(th) ==
    /\ retrainers[th].pc = "classify"
    /\ LET training_data == retrainers[th].training_data
       IN  IF Cardinality({Label(training_data[i]) : i \in DOMAIN training_data}) < 2
           THEN /\ RetrainReturn(th, [status |-> "error",
                       message |-> "This solver needs samples of at least 2 classes"])
                /\ UNCHANGED models
           ELSE /\ models' = [models EXCEPT !.risk_classifier =
                                 Classifier(Len(extract_features(training_data[1]).val),
                                            retrainers[th].fit.proba)]
                /\ RetrainGoto(th, "save")
    /\ UNCHANGED <<settings, analyzer_kind, static_blacklist, near_blacklist, cache,
                   now, is_trained, saved, added, last, prev>>

\* self._save_models() and the success status
RetrainSave(th) ==
    /\ retrainers[th].pc = "save"
    /\ saved' = Hybrid_save_models(saved, models, retrainers[th].fit.save_ok)
    /\ RetrainReturn(th, [status |-> "success",
                          samples_used |-> Len(retrainers[th].training_data),
                          timestamp |-> now])
    /\ UNCHANGED <<settings, analyzer_kind, static_blacklist, near_blacklist, cache,
                   now, is_trained, models, added, last, prev>>

\* the caller of thread th takes the status
RetrainDone(th) ==
    /\ retrainers[th].pc = "done"
    /\ retrainers' = [retrainers EXCEPT ![th] = NotRetraining]
    /\ UNCHANGED <<settings, analyzer_kind, static_blacklist, near_blacklist, cache,
                   now, is_trained, models, saved, added, last, prev>>

NextThreads ==
    \E th \in Threads :
        \/ \E td \in ThreadTrainingSets, fit \in ThreadFits : RetrainCall(th, td, fit)
        \/ RetrainCheck(th)
        \/ RetrainScale(th)
        \/ RetrainForest(th)
        \/ RetrainClassify(th)
        \/ RetrainSave(th)
        \/ RetrainDone(th)

SpecThreads == InitThreads /\ [][NextThreads]_vars

-----------------------------------------------------------------------------
(* The analyzers in a process whose environment configures the thresholds *)

\* RISK_THRESHOLD_LOW / _MEDIUM / _HIGH as the environment can set them
ConfiguredSettings ==
    {DefaultSettings,
     [risk_threshold_low |-> 200, risk_threshold_medium |-> 600,
      risk_threshold_high |-> 800],
     [risk_threshold_low |-> 300, risk_threshold_medium |-> 500,
      risk_threshold_high |-> 900]}

InitConfigured ==
    /\ settings \in ConfiguredSettings
    /\ CheckerInit
    /\ last = Idle
    /\ prev = Idle
    /\ retrainers = NoRetrainers
    /\ \/ /\ analyzer_kind = "simple"
          /\ NoAnalyzerModels
       \/ /\ analyzer_kind = "hybrid"
          /\ \E k \in RetrainConstructions :
                LET c == Hybrid_init(k[1], k[2], k[3])
                IN  /\ is_trained = c.is_trained
                    /\ models = c.models
                    /\ saved = c.saved

NextConfigured ==
    \/ \E tx \in SimpleTransactions : AnalyzeSimple(tx)
    \/ \E tx \in SimpleTransactions, fault \in Faults : AnalyzeHybrid(tx, fault)
    \/ Return

SpecConfigured == InitConfigured /\ [][NextConfigured]_vars

-----------------------------------------------------------------------------
(* Properties of the analyzers, checked under Spec *)

\* the Decision of the call that just returned
D == last.result.val

\* the verdict check_address gives for the user address of the last transaction
LastVerdict ==
    check_address(static_blacklist, near_blacklist,
                  last.tx.user_address, last.tx.source_chain)

(* C1: for a transaction that carries a user address, with either analyzer:
   whenever check_address of that address on the source chain is flagged,
   analyze returns risk_score 1.0, a level of high or critical, approved false
   and the action block_transaction, whatever the amount and the history. *)
C1_BlacklistedIsBlocked ==
    (/\ last.op = "analyze"
     /\ last.tx.user_address # NoAddress
     /\ LastVerdict.is_blacklisted)
    => /\ ~last.result.exc
       /\ D.risk_score = 1000
       /\ D.risk_level \in {"high", "critical"}
       /\ D.approved = FALSE
       /\ D.recommended_action = "block_transaction"

\* a pattern-only match (increment 0.5) of a small transfer by a known user
C1_Witness ==
    /\ last.op = "analyze"
    /\ last.kind = "hybrid"
    /\ last.tx.user_address = EthBeefPattern
    /\ LastVerdict.source = "pattern_detection"
    /\ last.tx.amount_in = 10
    /\ ~last.tx.user_history.is_new_user
    /\ D.risk_score = 1000
    /\ D.approved = FALSE

\* the fixed emergency Decision, as the specification words it
EmergencyFields(d) ==
    /\ d.risk_score = 500
    /\ d.risk_level = "medium"
    /\ d.approved = FALSE
    /\ d.recommended_action = "manual_review_required"
    /\ d.ml_confidence = 0
    /\ d.risk_factors = <<"Risk analysis system error - manual review required">>

(* C2: analyze never raises: every call ends with a Decision, whatever fails
   in the blacklist check, the ML step or the fallback step; when the
   fallback (for the Simple Analyzer, the rule step) itself fails, the
   Decision is the fixed emergency Decision. *)
C2_NeverRaises ==
    last.op = "analyze"
    => /\ ~last.result.exc
       /\ last.path = "emergency" => EmergencyFields(D)

\* a READY Hybrid Analyzer whose ML step and fallback step both raise
C2_Witness ==
    /\ last.op = "analyze"
    /\ last.kind = "hybrid"
    /\ is_trained
    /\ last.tx.amount_in = BadAmount
    /\ last.path = "emergency"
    /\ ~last.result.exc
    /\ D.risk_score = 500

(* C3: the reason list of every Decision analyze returns is non-empty, on
   every path of both analyzers. *)
C3_ReasonsNonEmpty ==
    last.op = "analyze" => Len(D.risk_factors) > 0

(* C4: in every Decision either analyzer returns, 0 <= risk_score <= 1. *)
C4_ScoreInUnitInterval ==
    last.op = "analyze" => (0 <= D.risk_score /\ D.risk_score <= 1000)

\* the rule terms add up to 1.1 (base, amount > 100, cross-chain, risky
\* history, velocity) and the Decision carries 1.0
C4_Witness ==
    /\ last.op = "analyze"
    /\ last.kind = "simple"
    /\ last.path = "rules"
    /\ last.tx.amount_in = 1500
    /\ last.tx.source_chain # last.tx.destination_chain
    /\ last.tx.user_history = Existing(4, 20, 500)
    /\ D.risk_score = 1000

(* C5: fallback law: when the Hybrid Analyzer's model layer fails, its
   Decision equals, field by field, the Decision the Simple Analyzer returns
   for the same input and blacklist state, with confidence 0.7. *)
C5_FallbackEqualsSimple ==
    (/\ last.op = "analyze"
     /\ last.kind = "hybrid"
     /\ last.path = "fallback")
    => /\ D = Simple_analyze_risk(static_blacklist, near_blacklist, last.tx).val
       /\ D.ml_confidence = 700

(* C19: the rule score the Hybrid Analyzer uses equals the Rule Engine score
   of the transaction, velocity term included: on the fallback path the
   Decision's score is that score plus the verdict's increment, clamped, and on
   the ML path it is 0.4 x classifier probability + 0.3 x anomaly term + 0.3 x
   that score, plus the increment, clamped. *)
C19_HybridRuleScore ==
    (/\ last.op = "analyze"
     /\ last.kind = "hybrid"
     /\ last.path \in {"fallback", "ml"})
    => LET rule == rule_based_score(last.tx).val.score
           increase == D.blacklist_check.risk_score_increase
           anomaly == Max(0, 1000 - ((models.isolation_forest.decision + 1000) \div 2))
       IN  /\ last.path = "fallback"
                => D.risk_score = Min(rule + increase, 1000)
           /\ last.path = "ml"
                => D.risk_score =
                       Min(Max((4 * models.risk_classifier.proba + 3 * anomaly
                                + 3 * rule) \div 10 + increase, 0), 1000)

(* C21: fail-closed: in every Decision either analyzer returns, after any
   sequence of analyses and blacklist additions, approved = true implies that
   the embedded verdict is not flagged, that the Decision did not come from
   the emergency path, and that risk_score is below 0.6; the blacklist, the
   fallback and the emergency path never approve at or above that score. *)
C21_FailClosed ==
    (last.op = "analyze" /\ D.approved)
    => /\ ~D.blacklist_check.is_blacklisted
       /\ last.path \notin {"blacklist", "emergency"}
       /\ ~EmergencyFields(D)
       /\ D.risk_score < 600

\* the fallback path approves a score of 0.5, below the threshold, after an
\* addition to the blacklist
C21_Witness ==
    /\ last.op = "analyze"
    /\ last.kind = "hybrid"
    /\ last.path = "fallback"
    /\ added # {}
    /\ D.approved
    /\ D.risk_score = 500

(* C22: every flagged verdict of the user address takes the short-circuit,
   a pattern-only match with increment 0.5 or 0.7 included; so a Decision of a
   scoring step (Simple rules, Hybrid combination, Hybrid fallback) carries a
   verdict that is not flagged, has increment 0.0 and no reason, its score is
   the one computed without any blacklist term, and its factors hold no
   blacklist reason. *)
C22_FlaggedShortCircuits ==
    last.op = "analyze"
    => /\ (last.tx.user_address # NoAddress /\ LastVerdict.is_blacklisted)
             => /\ last.path = "blacklist"
                /\ D.blacklist_check = LastVerdict
                /\ D.risk_score = 1000
                /\ D.risk_factors = <<LastVerdict.reason>>
       /\ last.path \in {"rules", "fallback", "ml"}
             => /\ ~D.blacklist_check.is_blacklisted
                /\ D.blacklist_check.risk_score_increase = 0
                /\ D.blacklist_check.reason = None
       /\ last.path = "rules"
             => LET r == Simple_rule_based_analysis(last.tx, CleanVerdict).val
                IN  D.risk_score = r.risk_score /\ D.risk_factors = r.risk_factors
       /\ last.path = "fallback"
             => LET r == Hybrid_fallback_analysis(last.tx, CleanVerdict).val
                IN  D.risk_score = r.risk_score /\ D.risk_factors = r.risk_factors
       /\ last.path = "ml"
             => D.risk_factors = Hybrid_identify_risk_factors(last.tx)

\* a NEAR account name with a suspicious keyword, not in the flagged set: the
\* Simple Analyzer blocks on the 0.7 verdict without scoring
C22_Witness ==
    /\ last.op = "analyze"
    /\ last.kind = "simple"
    /\ last.tx.user_address = NearFraud
    /\ NearFraud \notin near_blacklist
    /\ LastVerdict.risk_score_increase = 700
    /\ last.path = "blacklist"
    /\ D.blacklist_check = LastVerdict

(* C23: the vector extract_features returns has one length for every
   transaction and history, and that length is the number of features the
   bootstrap fits on, so the scaler of a bootstrapped READY analyzer accepts
   the vector of every analysis. *)
C23_FeatureContract ==
    (/\ last.op = "analyze"
     /\ last.kind = "hybrid"
     /\ ~extract_features(last.tx).exc)
    => LET n == Len(extract_features(last.tx).val)
       IN  /\ n = ExtractedFeatures
           /\ n = BootstrapFeatures
           /\ (is_trained /\ models.feature_scaler = Scaler(BootstrapFeatures))
                => models.feature_scaler.n_features = n

\* the four rows of the classifier
ClassifierRows ==
    {[level |-> "low", approved |-> TRUE, action |-> "proceed"],
     [level |-> "medium", approved |-> TRUE, action |-> "proceed_with_monitoring"],
     [level |-> "high", approved |-> FALSE, action |-> "manual_review_required"],
     [level |-> "critical", approved |-> FALSE, action |-> "block_transaction"]}

(* C25: in every Decision either analyzer returns, the blacklist short-circuit
   and the emergency Decision included, (risk_level, approved,
   recommended_action) is one of the four rows of the classifier, and it is
   the row classify assigns to the Decision's risk_score. *)
C25_TripleIsClassifierRow ==
    last.op = "analyze"
    => LET triple == [level |-> D.risk_level, approved |-> D.approved,
                      action |-> D.recommended_action]
       IN  /\ triple \in ClassifierRows
           /\ triple = determine_risk_level(settings, D.risk_score)

-----------------------------------------------------------------------------
(* Properties of the Risk Level Classifier, checked under SpecClassify *)

Ascending(st) ==
    /\ st.risk_threshold_low < st.risk_threshold_medium
    /\ st.risk_threshold_medium < st.risk_threshold_high

(* C6: for ascending thresholds, classify returns (low, approved, proceed)
   below low, (medium, approved, proceed_with_monitoring) from low up to
   medium, (high, not approved, manual_review_required) from medium up to
   high, and (critical, not approved, block_transaction) from high on; a score
   equal to a threshold falls in the upper band. *)
C6_ClassifyBands ==
    (last.op = "classify" /\ Ascending(settings))
    => LET s == last.score
           r == last.result
       IN  /\ s < settings.risk_threshold_low
                => r = [level |-> "low", approved |-> TRUE, action |-> "proceed"]
           /\ (settings.risk_threshold_low <= s /\ s < settings.risk_threshold_medium)
                => r = [level |-> "medium", approved |-> TRUE,
                        action |-> "proceed_with_monitoring"]
           /\ (settings.risk_threshold_medium <= s /\ s < settings.risk_threshold_high)
                => r = [level |-> "high", approved |-> FALSE,
                        action |-> "manual_review_required"]
           /\ settings.risk_threshold_high <= s
                => r = [level |-> "critical", approved |-> FALSE,
                        action |-> "block_transaction"]

\* a score equal to the medium threshold of a non-default ascending triple
C6_Witness ==
    /\ last.op = "classify"
    /\ Ascending(settings)
    /\ settings # DefaultSettings
    /\ last.score = settings.risk_threshold_medium
    /\ last.result.level = "high"

Rank(level) ==
    CASE level = "low" -> 0
      [] level = "medium" -> 1
      [] level = "high" -> 2
      [] level = "critical" -> 3

(* C7: classify is monotonic for every threshold set: of two calls with
   scores s1 <= s2, the level of the second is not below the level of the
   first, and if the second is approved so is the first. *)
C7_ClassifyMonotonic ==
    (/\ prev.op = "classify"
     /\ last.op = "classify"
     /\ prev.score <= last.score)
    => /\ Rank(prev.result.level) <= Rank(last.result.level)
       /\ last.result.approved => prev.result.approved

\* two calls under thresholds that are not ascending, the level rising
C7_Witness ==
    /\ prev.op = "classify"
    /\ last.op = "classify"
    /\ ~Ascending(settings)
    /\ prev.score < last.score
    /\ Rank(prev.result.level) < Rank(last.result.level)

-----------------------------------------------------------------------------
(* Properties of the Rule Engine, checked under SpecRules *)

\* the four terms, as the specification states them
TermA(tx) ==
    IF tx.amount_in > 1000 THEN 400
    ELSE IF tx.amount_in > 100 /\ tx.amount_in <= 1000 THEN 200
    ELSE IF tx.amount_in > 10 /\ tx.amount_in <= 100 THEN 100
    ELSE 0
TermC(tx) == IF tx.source_chain # tx.destination_chain THEN 100 ELSE 0
TermH(tx) ==
    IF tx.user_history.is_new_user THEN 200
    ELSE IF tx.user_history.high_risk_ratio > 300 THEN 200
    ELSE 0
TermV(tx) ==
    IF /\ ~tx.user_history.is_new_user
       /\ tx.user_history.avg_transaction_size > 0
       /\ tx.amount_in > 5 * tx.user_history.avg_transaction_size
    THEN 300 ELSE 0

(* C8: for a numeric amount the Rule Engine score equals
   min(1.0, 0.1 + A + C + H + V), the factor list has one factor per non-zero
   term in the order A, C, H, V, and a repeated call with the same amount,
   chains and history returns the same score and factors. *)
C8_RuleScore ==
    (last.op = "rule_score" /\ last.tx.amount_in # BadAmount)
    => LET tx == last.tx
           r == last.result.val
           count == (IF TermA(tx) # 0 THEN 1 ELSE 0) + (IF TermC(tx) # 0 THEN 1 ELSE 0)
                    + (IF TermH(tx) # 0 THEN 1 ELSE 0) + (IF TermV(tx) # 0 THEN 1 ELSE 0)
       IN  /\ ~last.result.exc
           /\ r.score = Min(1000, 100 + TermA(tx) + TermC(tx) + TermH(tx) + TermV(tx))
           /\ Len(r.factors) = count
           /\ TermA(tx) # 0
                => r.factors[1] \in {"Very large transaction amount (>100)",
                                     "Large transaction amount (>10)",
                                     "Medium transaction amount (>1)"}
           /\ TermC(tx) # 0
                => r.factors[1 + (IF TermA(tx) # 0 THEN 1 ELSE 0)]
                       = "Cross-chain transaction"
           /\ TermH(tx) # 0
                => r.factors[count - (IF TermV(tx) # 0 THEN 1 ELSE 0)]
                       \in {"New user with no transaction history",
                            "User has history of high-risk transactions"}
           /\ TermV(tx) # 0
                => r.factors[count] = "Transaction significantly larger than user average"
           /\ (/\ prev.op = "rule_score"
               /\ prev.tx.amount_in = tx.amount_in
               /\ prev.tx.source_chain = tx.source_chain
               /\ prev.tx.destination_chain = tx.destination_chain
               /\ prev.tx.user_history = tx.user_history)
                => prev.result = last.result

\* all four terms fire, the sum 1.1 is clamped, and an earlier call with the
\* same amount, chains and history but another address returned the same
C8_Witness ==
    /\ last.op = "rule_score"
    /\ prev.op = "rule_score"
    /\ prev.tx.user_address # last.tx.user_address
    /\ prev.tx.amount_in = last.tx.amount_in
    /\ prev.tx.source_chain = last.tx.source_chain
    /\ prev.tx.destination_chain = last.tx.destination_chain
    /\ prev.tx.user_history = last.tx.user_history
    /\ TermA(last.tx) = 400
    /\ TermC(last.tx) = 100
    /\ TermH(last.tx) = 200
    /\ TermV(last.tx) = 300
    /\ last.result.val.score = 1000
    /\ Len(last.result.val.factors) = 4

-----------------------------------------------------------------------------
(* Properties of the Blacklist Checker, checked under SpecBlacklist *)

IsEthereum(chain) == chain # NoneSeq /\ Lower(chain) = ethereum
IsNear(chain) == chain # NoneSeq /\ Lower(chain) = near

\* the address, normalised the chain's way, is in the chain's flagged set
InFlaggedSet(address, chain) ==
    IF IsEthereum(chain) THEN Lower(address) \in static_blacklist
    ELSE address \in near_blacklist

\* the address contains one of the chain's suspicious tokens
HasToken(address, chain) ==
    LET tokens == IF IsEthereum(chain) THEN suspicious_patterns ELSE suspicious_keywords
    IN  \E i \in 1..Len(tokens) : Contains(Lower(address), tokens[i])

(* C9: on a supported chain, check tests membership in the chain's flagged
   set before any pattern: an address in the set gets increment 1.0 and the
   static source, also when it contains a suspicious token; an address not in
   the set that contains a suspicious token is flagged with the pattern source
   and increment 0.5 (Ethereum) or 0.7 (NEAR); every other address is not
   flagged and gets increment 0.0. *)
C9_CheckVerdict ==
    (last.op = "check" /\ (IsEthereum(last.chain) \/ IsNear(last.chain)))
    => LET a == last.address
           c == last.chain
           r == last.result
       IN  /\ InFlaggedSet(a, c)
                => /\ r.is_blacklisted
                   /\ r.risk_score_increase = 1000
                   /\ r.source = (IF IsEthereum(c) THEN "kembridge_static"
                                  ELSE "kembridge_near_static")
           /\ (~InFlaggedSet(a, c) /\ HasToken(a, c))
                => /\ r.is_blacklisted
                   /\ r.risk_score_increase = (IF IsEthereum(c) THEN 500 ELSE 700)
                   /\ r.source = (IF IsEthereum(c) THEN "pattern_detection"
                                  ELSE "near_pattern_detection")
           /\ (~InFlaggedSet(a, c) /\ ~HasToken(a, c))
                => /\ ~r.is_blacklisted
                   /\ r.risk_score_increase = 0

\* a flagged-set entry that also contains the pattern 0x000000
C9_Witness ==
    /\ last.op = "check"
    /\ last.address = EthDeadUpper
    /\ IsEthereum(last.chain)
    /\ HasToken(last.address, last.chain)
    /\ last.result.source = "kembridge_static"
    /\ last.result.risk_score_increase = 1000

(* C10: once add(a, chain) has returned true, every later check(a', chain)
   is flagged with increment 1.0, whatever add, check, check_external and
   stats calls came between: on Ethereum for every a' equal to a up to letter
   case, on NEAR for a' = a; the chain identifier is matched case-insensitively
   in add and in check. *)
C10_AddedStaysFlagged ==
    (/\ last.op = "check"
     /\ \E ac \in added :
            \/ /\ IsEthereum(ac[2]) /\ IsEthereum(last.chain)
               /\ Lower(ac[1]) = Lower(last.address)
            \/ /\ IsNear(ac[2]) /\ IsNear(last.chain)
               /\ ac[1] = last.address)
    => /\ last.result.is_blacklisted
       /\ last.result.risk_score_increase = 1000

\* a mixed-case address added under "Ethereum", checked in lower case under
\* "ethereum" after a cache fill, with no pattern in it
C10_Witness ==
    /\ last.op = "check"
    /\ <<EthCleanMixed, Ethereum>> \in added
    /\ last.address = EthClean
    /\ last.chain = ethereum
    /\ ~HasToken(last.address, last.chain)
    /\ DOMAIN cache # {}
    /\ last.result.risk_score_increase = 1000

\* the chain identifier selects neither per-chain check
Unsupported(chain) == ~IsEthereum(chain) /\ ~IsNear(chain)

(* C11: with a chain identifier that is neither Ethereum nor NEAR, matched
   case-insensitively, check returns the not-flagged verdict (increment 0.0,
   no reason, no source) for every address, also one in another chain's
   flagged set, add returns false, and both calls leave the two flagged sets
   and the cache as they were. *)
C11_UnsupportedChain ==
    [][(/\ last.op = "idle"
        /\ last'.op \in {"check", "add"}
        /\ Unsupported(last'.chain))
       => /\ last'.op = "check" => last'.result = CleanVerdict
          /\ last'.op = "add" => last'.result = FALSE
          /\ static_blacklist' = static_blacklist
          /\ near_blacklist' = near_blacklist
          /\ cache' = cache]_vars

\* a NEAR flagged-set entry checked under "solana", the cache holding an entry
C11_Witness ==
    /\ last.op = "check"
    /\ last.chain = solana
    /\ last.address = NearScammer
    /\ NearScammer \in near_blacklist
    /\ DOMAIN cache # {}
    /\ last.result = CleanVerdict

(* C12: check_external(address, chain) at time t returns the cached verdict
   and leaves the cache as it was, timestamp included, exactly when the cache
   holds an entry for (chain, address) stored less than one hour before t;
   otherwise it returns the always-clean stub verdict and stores it with
   timestamp t, in place of an expired entry if there is one.  No step removes
   a cache entry. *)
C12_ExternalCache ==
    [][/\ DOMAIN cache \subseteq DOMAIN cache'
       /\ (last.op = "idle" /\ last'.op = "check_external")
          => LET k == CacheKey(last'.address, last'.chain)
             IN  IF k \in DOMAIN cache /\ now - cache[k].timestamp < 60
                 THEN /\ last'.result = cache[k].result
                      /\ cache' = cache
                 ELSE /\ last'.result = ExternalVerdict
                      /\ DOMAIN cache' = DOMAIN cache \cup {k}
                      /\ cache'[k] = [result |-> ExternalVerdict, timestamp |-> now]
                      /\ \A j \in DOMAIN cache \ {k} : cache'[j] = cache[j]]_vars

\* a hit half an hour after the entry was stored: the timestamp is the old one
C12_Witness ==
    /\ last.op = "check_external"
    /\ now = 30
    /\ CacheKey(last.address, last.chain) \in DOMAIN cache
    /\ cache[CacheKey(last.address, last.chain)].timestamp = 0
    /\ last.result = ExternalVerdict

-----------------------------------------------------------------------------
(* Properties of retraining, checked under SpecRetrain *)

(* C13: retrain with fewer than 10 samples returns the error status with the
   insufficient-data message and leaves the scaler, the detector, the
   classifier, the readiness flag and the persisted artifacts as they were, so
   that analyze returns for every input the Decision it returned before. *)
C13_RejectedRetrain ==
    [][(/\ last.op = "idle"
        /\ last'.op = "retrain"
        /\ Len(last'.training_data) < 10)
       => /\ last'.result = [status |-> "error",
                             message |-> "Insufficient training data"]
          /\ models' = models
          /\ is_trained' = is_trained
          /\ saved' = saved
          /\ \A tx \in RetrainTransactions, fault \in Faults :
                Hybrid_analyze_risk(static_blacklist', near_blacklist', is_trained',
                                    models', tx, fault)
                = Hybrid_analyze_risk(static_blacklist, near_blacklist, is_trained,
                                      models, tx, fault)]_vars

\* five samples of both labels offered to a READY analyzer after an analysis
C13_Witness ==
    /\ last.op = "retrain"
    /\ Len(last.training_data) = 5
    /\ \E i, j \in 1..5 : Label(last.training_data[i]) # Label(last.training_data[j])
    /\ last.result.status = "error"
    /\ prev.op = "analyze"
    /\ is_trained

(* C17: an analysis by the Hybrid Analyzer leaves the readiness flag, the
   three models, the persisted artifacts and both flagged sets as they were,
   also when its ML step raises and the call degrades to the fallback: a READY
   analyzer stays READY and the next call takes the ML branch again. *)
C17_AnalyzeKeepsState ==
    [][(/\ last.op = "idle"
        /\ last'.op = "analyze"
        /\ last'.kind = "hybrid")
       => /\ is_trained' = is_trained
          /\ models' = models
          /\ saved' = saved
          /\ static_blacklist' = static_blacklist
          /\ near_blacklist' = near_blacklist]_vars

\* a READY analyzer scores by ML right after a call that fell back
C17_Witness ==
    /\ is_trained
    /\ prev.op = "analyze"
    /\ prev.path = "fallback"
    /\ last.op = "analyze"
    /\ last.tx = prev.tx
    /\ last.path = "ml"

(* C24: retrain is atomic on failure: whenever it returns an error status,
   for whatever cause, the scaler, the detector and the classifier in memory
   are the ones in place before the call, and they are the ones last
   persisted. *)
C24_RetrainAtomic ==
    [][(/\ last.op = "idle"
        /\ last'.op = "retrain"
        /\ last'.result.status = "error")
       => /\ models' = models
          /\ models = saved => models' = saved']_vars

-----------------------------------------------------------------------------
(* Properties of repeated Simple analyses, checked under SpecSimple *)

(* C14: an analysis by the Simple Analyzer changes neither flagged set nor
   the cache, and when the call before it was an analysis of the same input,
   with no blacklist addition between the two, it returns the Decision that
   call returned. *)
C14_SimpleRepeatable ==
    [][(/\ last.op = "idle"
        /\ last'.op = "analyze"
        /\ last'.kind = "simple")
       => /\ static_blacklist' = static_blacklist
          /\ near_blacklist' = near_blacklist
          /\ cache' = cache
          /\ (prev.op = "analyze" /\ prev.tx = last'.tx)
                => last'.result = prev.result]_vars

\* the second of two analyses of a pattern-flagged address, after an addition
\* and an external lookup
C14_Witness ==
    /\ last.op = "analyze"
    /\ prev.op = "analyze"
    /\ prev.tx = last.tx
    /\ last.tx.user_address = EthBeefPattern
    /\ last.path = "blacklist"
    /\ added # {}
    /\ DOMAIN cache # {}
    /\ last.result = prev.result

-----------------------------------------------------------------------------
(* Properties of the history provider, checked under SpecHistory *)

(* C15: get_user_history never raises.  For a row with total_transactions > 0
   it returns is_new_user = false, the row's count and high_risk_ratio =
   high_risk_count / total_transactions, which lies in [0, 1]; for no row, a
   zero count or a failed lookup it returns is_new_user = true with every
   aggregate zero. *)
C15_UserHistory ==
    last.op = "history"
    => LET f == last.fetched
           h == last.result.val
       IN  /\ ~last.result.exc
           /\ IF ~f.exc /\ f.val.row /\ f.val.total_transactions > 0
              THEN /\ h.is_new_user = FALSE
                   /\ h.total_transactions = f.val.total_transactions
                   /\ h.high_risk_ratio * f.val.total_transactions
                          = f.val.high_risk_count * 1000
                   /\ 0 <= h.high_risk_ratio
                   /\ h.high_risk_ratio <= 1000
              ELSE /\ h.is_new_user = TRUE
                   /\ h.total_transactions = 0
                   /\ h.total_volume = 0
                   /\ h.avg_transaction_size = 0
                   /\ h.days_since_first_tx = 0
                   /\ h.high_risk_ratio = 0

\* four transactions, one of them risky: ratio 0.25
C15_Witness ==
    /\ last.op = "history"
    /\ ~last.fetched.exc
    /\ last.fetched.val.row
    /\ last.fetched.val.total_transactions = 4
    /\ last.fetched.val.high_risk_count = 1
    /\ last.result.val.high_risk_ratio = 250
    /\ ~last.result.val.is_new_user

-----------------------------------------------------------------------------
(* Properties of construction, checked under SpecConstruct *)

\* scaler, detector and classifier are all fitted
AllFitted(m) ==
    m.feature_scaler.fitted /\ m.isolation_forest.fitted /\ m.risk_classifier.fitted

(* C16: construction of the Hybrid Analyzer ends READY: when the three
   persisted artifacts are there and load, with exactly them and nothing
   written; otherwise, when one is missing or fails to load, with three
   freshly fitted models that have been persisted. *)
C16_ConstructionReady ==
    last.op = "construct"
    => /\ is_trained
       /\ IF AllFitted(last.disk) /\ last.load_fail = 0
          THEN models = last.disk /\ saved = last.disk
          ELSE AllFitted(models) /\ saved = models

-----------------------------------------------------------------------------
(* Properties of concurrent retraining, checked under SpecThreads *)

\* the call of thread th has refitted a model and has not yet persisted
Refitting(th) == retrainers[th].pc \in {"forest", "classify", "save"}

(* C18: retraining is exclusive: at no time are two retrain executions on the
   analyzer both between their first refit and their persist step. *)
C18_RetrainExclusive ==
    \A t1, t2 \in Threads : (Refitting(t1) /\ Refitting(t2)) => t1 = t2

-----------------------------------------------------------------------------
(* Properties of the configured analyzers, checked under SpecConfigured *)

(* C20: under every configured ascending threshold triple, the level, the
   approval and the action of a scored Decision (rule, fallback or ML path,
   not the blacklist short-circuit, not the emergency Decision) are the ones
   classify gives its score under the configured thresholds. *)
C20_LevelsFollowSettings ==
    (/\ last.op = "analyze"
     /\ last.path \in {"rules", "fallback", "ml"}
     /\ Ascending(settings))
    => [level |-> D.risk_level, approved |-> D.approved,
        action |-> D.recommended_action]
       = determine_risk_level(settings, D.risk_score)

====
